---- MODULE Spec2Model ----
(***************************************************************************)
(* A model of apps/belt/tracking/tracking.py: class BeltTracking.           *)
(*                                                                         *)
(* The object's attributes are the variables that carry their names.  The  *)
(* caller's thread is thread 0; every successful start_camera spawns one   *)
(* daemon thread running timer_capture, numbered by the VideoCapture       *)
(* handle its start_camera call created.  A step of a thread is one access *)
(* to a shared attribute, so that every interleaving the interpreter can   *)
(* produce between two threads is a behaviour of the model.                *)
(***************************************************************************)
EXTENDS Integers, Sequences, FiniteSets, TLC

\* ------------------------------------------------------------------ bounds

\* camera.read() calls in a run of one session with a caller and the timer.
MaxPulls == 3
\* start_camera calls in a run of several sessions on one object (each
\* creates one VideoCapture handle), and camera.read() calls in it.
MaxRestarts == 2
MaxRestartPulls == 2
\* camera.read() calls in a run of the history specification.
MaxHistoryPulls == 12
\* camera.read() calls in a run of the classifier specification.
MaxClassifyPulls == 3
\* The largest threshold the classifier specification draws.
MaxThreshold == 2
\* The last instant of the clock, and the opens counted, in the belt specification.
MaxTime == 4
MaxOpens == 3
\* camera.read() calls, opens counted and the last instant of the clock in a
\* run of the specification of the whole object.
MaxWholePulls == 2
MaxWholeOpens == 1
MaxWholeTime == 1
\* Frames the device delivers in a run of the fair specification; every
\* later camera.read() fails.
MaxFairPulls == 3

\* ---------------------------------------------------------------- optional

\* Python's None and a present value.
None == <<>>
Some(x) == <<x>>
Val(o) == o[1]

\* ------------------------------------------------------------------ floats

\* A float as an exact quotient <<numerator, denominator>>; <<1, 0>> is inf
\* and <<0, 0>> is nan, the two values a division by 0.0 of a numpy float
\* produces.
One == <<1, 1>>
Zero == <<0, 1>>
Inf == <<1, 0>>
NaN == <<0, 0>>
IsNaN(a) == a[1] = 0 /\ a[1] = a[2]
FracLT(a, b) == ~IsNaN(a) /\ ~IsNaN(b) /\ a[1] * b[2] < b[1] * a[2]
FracLE(a, b) == ~IsNaN(a) /\ ~IsNaN(b) /\ a[1] * b[2] <= b[1] * a[2]
FracEq(a, b) == ~IsNaN(a) /\ ~IsNaN(b) /\ a[1] * b[2] = b[1] * a[2]
\* a / t for a threshold t >= 0.
FracDiv(a, t) ==
    IF t = 0 THEN (IF a[1] = 0 THEN NaN ELSE Inf) ELSE <<a[1], a[2] * t>>
\* a > t for a threshold t.
FracGT(a, t) == a[1] > t * a[2]
\* Python's min(a, b): b when b < a, else a (so min(nan, 1.0) is nan).
PyMin(a, b) == IF FracLT(b, a) THEN b ELSE a

\* ------------------------------------------------------------------ frames

\* A frame is a sequence of BGR pixels; a grey frame a sequence of intensities.
Pixel(v) == <<v, v, v>>
\* cv2.cvtColor(frame, cv2.COLOR_BGR2GRAY) on 8-bit pixels: the fixed-point
\* BT.601 weights, rounded.
GrayOf(p) == (p[1] * 3735 + p[2] * 19235 + p[3] * 9798 + 16384) \div 32768
cvtColor(frame) == [i \in 1..Len(frame) |-> GrayOf(frame[i])]
Abs(x) == IF x < 0 THEN -x ELSE x
\* cv2.absdiff of two grey frames of one shape.
absdiff(a, b) == [i \in 1..Len(a) |-> Abs(a[i] - b[i])]
RECURSIVE SumSeq(_)
SumSeq(s) == IF s = <<>> THEN 0 ELSE Head(s) + SumSeq(Tail(s))
\* np.mean of a grey frame.
mean(a) == <<SumSeq(a), Len(a)>>

\* The frames the camera may deliver: two pixels each.
Frame2(a, b) == <<Pixel(a), Pixel(b)>>
Frames == {Frame2(0, 0), Frame2(90, 90)}
FramesClassify ==
    {Frame2(0, 0), Frame2(1, 0), Frame2(1, 1), Frame2(2, 1), Frame2(3, 3)}

\* ---------------------------------------------------------------- settings

\* CameraSettings(): the defaults of the dataclass.
DefaultSettings ==
    [timer_interval |-> 60, movement_threshold |-> 30, fall_threshold |-> 50,
     running_threshold |-> 40]
Thresholds == 0..MaxThreshold
SettingsClassify ==
    {[timer_interval |-> 60, movement_threshold |-> m, fall_threshold |-> f,
      running_threshold |-> r] : m \in Thresholds, r \in Thresholds, f \in Thresholds}

\* ------------------------------------------------------------------- state

VARIABLES
    \* BeltTracking's attributes (the leading underscore dropped).
    last_open_time, last_close_time, is_open, open_duration, total_opens,
    camera_settings, camera, timer_thread, is_capturing, last_frame,
    movement_history, capture_count,
    \* The device: the VideoCapture handles that are open.
    opened,
    \* Each thread's position and its locals; the last value a call returned to
    \* the caller (timer_capture discards what capture_image returns).
    pc, loc, result,
    \* time.time().
    now,
    \* History of the run: VideoCapture handles made, camera.read() calls made,
    \* whether no frame was delivered since is_capturing was last set.
    cams_made, pulls, session_fresh

belt_vars == <<last_open_time, last_close_time, is_open, open_duration, total_opens>>
camera_vars ==
    <<camera_settings, camera, timer_thread, is_capturing, last_frame,
      movement_history, capture_count, opened>>
thread_vars == <<pc, loc, result>>
ghost_vars == <<cams_made, pulls, session_fresh>>
vars == <<belt_vars, camera_vars, thread_vars, now, ghost_vars>>

Main == 0
Timers == 1..MaxRestarts
Threads == {Main} \cup Timers

NoLocals == [cam |-> 0, frame |-> <<>>, gray |-> <<>>, movement |-> Zero,
             data |-> <<>>, count |-> 0, first |-> FALSE]
NoResult == [op |-> "none", status |-> "none", message |-> ""]

\* __init__
InitObject(settings) ==
    /\ last_open_time = None
    /\ last_close_time = None
    /\ is_open = FALSE
    /\ open_duration = 0
    /\ total_opens = 0
    /\ camera_settings = settings
    /\ camera = None
    /\ timer_thread = None
    /\ is_capturing = FALSE
    /\ last_frame = None
    /\ movement_history = <<>>
    /\ capture_count = 0

InitRun ==
    /\ opened = {}
    /\ pc = [t \in Threads |-> IF t = Main THEN "idle" ELSE "unborn"]
    /\ loc = [t \in Threads |-> NoLocals]
    /\ result = NoResult
    /\ now = 0
    /\ cams_made = 0
    /\ pulls = 0
    /\ session_fresh = FALSE

Init == InitObject(DefaultSettings) /\ InitRun

\* ----------------------------------------------------------------- results

\* What a call returns.  The file name and the timestamp of a capture come from
\* the wall clock and the save directory and are read by nothing; they are
\* left out of the record.
Result(op, status, message) == [op |-> op, status |-> status, message |-> message]
ErrNotCapturing ==
    Result("capture_image", "error", "Camera not initialized or not capturing")
ErrNoFrame == Result("capture_image", "error", "Failed to capture frame")
\* An exception that leaves the call: `None.read` is an AttributeError.
Raised == Result("capture_image", "raised", "AttributeError")
Trigger(t) == IF t = Main THEN "manual" ELSE "timer"
\* `first` is not part of the record: it remembers that the frame of this
\* capture was the first one delivered since is_capturing was set.
CaptureSuccess(t, data, first) ==
    [op |-> "capture_image", status |-> "success", message |-> "",
     movement |-> data, trigger |-> Trigger(t), first |-> first]

\* The position of thread t once its capture_image call has returned: the
\* caller is idle again, the timer loop sleeps timer_interval.
AfterCapture(t) == IF t = Main THEN "idle" ELSE "t_sleep"
Return(t, r) ==
    /\ pc' = [pc EXCEPT ![t] = AfterCapture(t)]
    /\ loc' = [loc EXCEPT ![t] = NoLocals]
    /\ result' = IF t = Main THEN r ELSE result
Goto(t, label) == pc' = [pc EXCEPT ![t] = label]

\* -------------------------------------------------------------- classifier

\* MovementTypeOf with >= for >: a magnitude equal to a threshold is put in
\* the upper class.
MovementTypeOfInclusive(movement, s) ==
    IF movement[1] >= s.fall_threshold * movement[2] THEN "fall"
    ELSE IF movement[1] >= s.running_threshold * movement[2] THEN "running"
    ELSE IF movement[1] >= s.movement_threshold * movement[2] THEN "walking"
    ELSE "none"

\* Lines 150-159: the type, by descending threshold.
MovementTypeOf(movement, s) ==
    IF FracGT(movement, s.fall_threshold) THEN "fall"
    ELSE IF FracGT(movement, s.running_threshold) THEN "running"
    ELSE IF FracGT(movement, s.movement_threshold) THEN "walking"
    ELSE "none"
\* Confidence without the saturation at 1.0.
ConfidenceUnsaturated(movement, s) == FracDiv(movement, s.movement_threshold)

\* Line 152.
Confidence(movement, s) == PyMin(FracDiv(movement, s.movement_threshold), One)
\* Lines 161-165.
MovementData(movement, s) ==
    [type |-> MovementTypeOf(movement, s), confidence |-> Confidence(movement, s),
     movement_value |-> movement]
\* Line 138: what the calibration call returns.
CalibrationData == [type |-> "none", confidence |-> Zero]

\* ----------------------------------------------------------- capture_image

\* Line 104, left operand: self._camera is None.
CiCheckCamera(t) ==
    /\ pc[t] = "ci_check_camera"
    /\ IF camera = None
       THEN Return(t, ErrNotCapturing)
       ELSE Goto(t, "ci_check_capturing") /\ UNCHANGED <<loc, result>>
    /\ UNCHANGED <<belt_vars, camera_vars, now, ghost_vars>>

\* CiCheckCapturing without the test of the flag: a camera is enough.
CiCheckCapturingSkipped(t) ==
    /\ pc[t] = "ci_check_capturing"
    /\ Goto(t, "ci_load_camera")
    /\ UNCHANGED <<belt_vars, camera_vars, loc, result, now, ghost_vars>>

\* Line 104, right operand: not self._is_capturing.
CiCheckCapturing(t) ==
    /\ pc[t] = "ci_check_capturing"
    /\ IF ~is_capturing
       THEN Return(t, ErrNotCapturing)
       ELSE Goto(t, "ci_load_camera") /\ UNCHANGED <<loc, result>>
    /\ UNCHANGED <<belt_vars, camera_vars, now, ghost_vars>>

\* Line 110: self._camera is loaded for the call of its read method; on None
\* the attribute lookup raises, which ends a timer thread and reaches the
\* caller of a manual capture.
CiLoadCamera(t) ==
    /\ pc[t] = "ci_load_camera"
    /\ IF camera = None
       THEN /\ pc' = [pc EXCEPT ![t] = IF t = Main THEN "idle" ELSE "t_dead"]
            /\ loc' = [loc EXCEPT ![t] = NoLocals]
            /\ result' = IF t = Main THEN Raised ELSE result
       ELSE /\ Goto(t, "ci_read")
            /\ loc' = [loc EXCEPT ![t].cam = Val(camera)]
            /\ UNCHANGED result
    /\ UNCHANGED <<belt_vars, camera_vars, now, ghost_vars>>

\* CiRead, except that the capture is counted before the frame pull is
\* checked: a failed pull counts too.
CiReadCountsFailedPull(t, frames, cap) ==
    /\ pc[t] = "ci_read"
    /\ pulls < cap
    /\ pulls' = pulls + 1
    /\ \/ /\ loc[t].cam \in opened
          /\ \E frame \in frames :
                loc' = [loc EXCEPT ![t].frame = frame,
                                   ![t].first = session_fresh]
          /\ session_fresh' = FALSE
          /\ Goto(t, "dm_check")
          /\ UNCHANGED <<result, capture_count>>
       \/ /\ Return(t, ErrNoFrame)
          /\ capture_count' = capture_count + 1
          /\ UNCHANGED session_fresh
    /\ UNCHANGED <<belt_vars, camera_settings, camera, timer_thread, is_capturing,
                   last_frame, movement_history, opened, now, cams_made>>

\* CiRead, except that a failed pull in a timer tick ends the timer loop.
CiReadFailureEndsLoop(t, frames, cap) ==
    /\ pc[t] = "ci_read"
    /\ pulls < cap
    /\ pulls' = pulls + 1
    /\ \/ /\ loc[t].cam \in opened
          /\ \E frame \in frames :
                loc' = [loc EXCEPT ![t].frame = frame,
                                   ![t].first = session_fresh]
          /\ session_fresh' = FALSE
          /\ Goto(t, "dm_check")
          /\ UNCHANGED result
       \/ /\ pc' = [pc EXCEPT ![t] = IF t = Main THEN "idle" ELSE "t_exit"]
          /\ loc' = [loc EXCEPT ![t] = NoLocals]
          /\ result' = IF t = Main THEN ErrNoFrame ELSE result
          /\ UNCHANGED session_fresh
    /\ UNCHANGED <<belt_vars, camera_vars, now, cams_made>>

\* Lines 110-115: read() on the loaded handle.  An open handle delivers a
\* frame or fails; a released or never opened one fails.
CiRead(t, frames, cap) ==
    /\ pc[t] = "ci_read"
    /\ pulls < cap
    /\ pulls' = pulls + 1
    /\ \/ /\ loc[t].cam \in opened
          /\ \E frame \in frames :
                loc' = [loc EXCEPT ![t].frame = frame,
                                   ![t].first = session_fresh]
          /\ session_fresh' = FALSE
          /\ Goto(t, "dm_check")
          /\ UNCHANGED result
       \/ /\ Return(t, ErrNoFrame)
          /\ UNCHANGED session_fresh
    /\ UNCHANGED <<belt_vars, camera_vars, now, cams_made>>

\* Line 136: self._last_frame is None.
DmCheck(t) ==
    /\ pc[t] = "dm_check"
    /\ Goto(t, IF last_frame = None THEN "dm_calibrate" ELSE "dm_diff")
    /\ UNCHANGED <<belt_vars, camera_vars, loc, result, now, ghost_vars>>

\* Lines 137-138: the first frame becomes the baseline; nothing is appended.
DmCalibrate(t) ==
    /\ pc[t] = "dm_calibrate"
    /\ last_frame' = Some(cvtColor(loc[t].frame))
    /\ loc' = [loc EXCEPT ![t].data = CalibrationData]
    /\ Goto(t, "ci_count_load")
    /\ UNCHANGED <<belt_vars, camera_settings, camera, timer_thread, is_capturing,
                   movement_history, capture_count, opened, result, now, ghost_vars>>

\* Lines 141-145: the mean absolute difference to the baseline read now.
DmDiff(t) ==
    /\ pc[t] = "dm_diff"
    /\ LET gray == cvtColor(loc[t].frame)
       IN  loc' = [loc EXCEPT ![t].gray = gray,
                              ![t].movement = mean(absdiff(Val(last_frame), gray))]
    /\ Goto(t, "dm_store")
    /\ UNCHANGED <<belt_vars, camera_vars, result, now, ghost_vars>>

\* Line 148.
DmStore(t) ==
    /\ pc[t] = "dm_store"
    /\ last_frame' = Some(loc[t].gray)
    /\ Goto(t, "dm_append")
    /\ UNCHANGED <<belt_vars, camera_settings, camera, timer_thread, is_capturing,
                   movement_history, capture_count, opened, loc, result, now,
                   ghost_vars>>

\* Lines 150-168.
DmAppend(t) ==
    /\ pc[t] = "dm_append"
    /\ LET data == MovementData(loc[t].movement, camera_settings)
       IN  /\ movement_history' = Append(movement_history, data)
           /\ loc' = [loc EXCEPT ![t].data = data]
    /\ Goto(t, "ci_count_load")
    /\ UNCHANGED <<belt_vars, camera_settings, camera, timer_thread, is_capturing,
                   last_frame, capture_count, opened, result, now, ghost_vars>>

\* Line 122, the read of self._capture_count (cv2.imwrite on line 121 hands
\* the frame to the file system and touches no attribute).
CiCountLoad(t) ==
    /\ pc[t] = "ci_count_load"
    /\ loc' = [loc EXCEPT ![t].count = capture_count]
    /\ Goto(t, "ci_count_store")
    /\ UNCHANGED <<belt_vars, camera_vars, result, now, ghost_vars>>

\* Line 122, the write, and lines 124-130.
CiCountStore(t) ==
    /\ pc[t] = "ci_count_store"
    /\ capture_count' = loc[t].count + 1
    /\ Return(t, CaptureSuccess(t, loc[t].data, loc[t].first))
    /\ UNCHANGED <<belt_vars, camera_settings, camera, timer_thread, is_capturing,
                   last_frame, movement_history, opened, now, ghost_vars>>

\* --------------------------------------------------------- the timer thread

\* TimerLoop without the test of line 93: the loop goes on whatever the flag.
TimerLoopIgnoresFlag(t) ==
    /\ pc[t] = "t_loop"
    /\ Goto(t, "ci_check_camera")
    /\ UNCHANGED <<belt_vars, camera_vars, loc, result, now, ghost_vars>>

\* TimerLoop with lines 94 and 95 exchanged: the loop waits timer_interval
\* before it issues a tick.
TimerLoopWaitsFirst(t) ==
    /\ pc[t] = "t_loop"
    /\ Goto(t, IF is_capturing THEN "t_sleep" ELSE "t_exit")
    /\ UNCHANGED <<belt_vars, camera_vars, loc, result, now, ghost_vars>>

\* Line 93: while self._is_capturing.
TimerLoop(t) ==
    /\ pc[t] = "t_loop"
    /\ Goto(t, IF is_capturing THEN "ci_check_camera" ELSE "t_exit")
    /\ UNCHANGED <<belt_vars, camera_vars, loc, result, now, ghost_vars>>

\* Line 95: time.sleep(timer_interval) returns.
TimerSleep(t) ==
    /\ pc[t] = "t_sleep"
    /\ Goto(t, "t_loop")
    /\ UNCHANGED <<belt_vars, camera_vars, loc, result, now, ghost_vars>>

\* ------------------------------------------------------------ start_camera

ReturnMain(r) ==
    /\ pc' = [pc EXCEPT ![Main] = "idle"]
    /\ result' = r
    /\ UNCHANGED loc

\* Lines 51-54: a new VideoCapture replaces self._camera, opened or not.
StartCameraOpen(starts) ==
    /\ pc[Main] = "idle"
    /\ cams_made < starts
    /\ cams_made' = cams_made + 1
    /\ camera' = Some(cams_made + 1)
    /\ \E ok \in BOOLEAN :
          opened' = IF ok THEN opened \cup {cams_made + 1} ELSE opened
    /\ Goto(Main, "sc_is_opened")
    /\ UNCHANGED <<belt_vars, camera_settings, timer_thread, is_capturing, last_frame,
                   movement_history, capture_count, loc, result, now, pulls,
                   session_fresh>>

\* Lines 56-57 and 67-72: the RuntimeError is caught and reported.
StartCameraIsOpened ==
    /\ pc[Main] = "sc_is_opened"
    /\ IF Val(camera) \in opened
       THEN Goto(Main, "sc_set_capturing") /\ UNCHANGED <<loc, result>>
       ELSE ReturnMain(Result("start_camera", "error", "Failed to open camera"))
            \* str(RuntimeError("Failed to open camera"))
    /\ UNCHANGED <<belt_vars, camera_vars, now, ghost_vars>>

\* Line 59.
StartCameraSetCapturing ==
    /\ pc[Main] = "sc_set_capturing"
    /\ is_capturing' = TRUE
    /\ session_fresh' = TRUE
    /\ Goto(Main, "sc_spawn")
    /\ UNCHANGED <<belt_vars, camera_settings, camera, timer_thread, last_frame,
                   movement_history, capture_count, opened, loc, result, now,
                   cams_made, pulls>>

\* Lines 60-66 and 88-98: the timer thread is created and started.
StartCameraSpawn ==
    /\ pc[Main] = "sc_spawn"
    /\ timer_thread' = Some(cams_made)
    /\ pc' = [pc EXCEPT ![Main] = "idle", ![cams_made] = "t_loop"]
    /\ result' = Result("start_camera", "success", "Camera started successfully")
    /\ UNCHANGED <<belt_vars, camera_settings, camera, is_capturing, last_frame,
                   movement_history, capture_count, opened, loc, now, ghost_vars>>

\* ------------------------------------------------------------- stop_camera

StopSuccess == Result("stop_camera", "success", "Camera stopped successfully")

\* StopCameraFlag, except that stopping the camera also closes the belt.
StopCameraFlagClosesBelt ==
    /\ pc[Main] = "idle"
    /\ is_capturing' = FALSE
    /\ is_open' = FALSE
    /\ Goto(Main, "st_release")
    /\ UNCHANGED <<last_open_time, last_close_time, open_duration, total_opens,
                   camera_settings, camera, timer_thread, last_frame,
                   movement_history, capture_count, opened, loc, result, now,
                   ghost_vars>>

\* Line 78.
StopCameraFlag ==
    /\ pc[Main] = "idle"
    /\ is_capturing' = FALSE
    /\ Goto(Main, "st_release")
    /\ UNCHANGED <<belt_vars, camera_settings, camera, timer_thread, last_frame,
                   movement_history, capture_count, opened, loc, result, now,
                   ghost_vars>>

\* Lines 79-80, or 79 and 83-86 when there is no camera.
StopCameraRelease ==
    /\ pc[Main] = "st_release"
    /\ IF camera = None
       THEN ReturnMain(StopSuccess) /\ UNCHANGED opened
       ELSE /\ opened' = opened \ {Val(camera)}
            /\ Goto(Main, "st_none")
            /\ UNCHANGED <<loc, result>>
    /\ UNCHANGED <<belt_vars, camera_settings, camera, timer_thread, is_capturing,
                   last_frame, movement_history, capture_count, now, ghost_vars>>

\* StopCameraNone without line 81: the released handle stays in self._camera.
StopCameraNoneKeepsHandle ==
    /\ pc[Main] = "st_none"
    /\ ReturnMain(StopSuccess)
    /\ UNCHANGED <<belt_vars, camera_vars, now, ghost_vars>>

\* Lines 81-86.
StopCameraNone ==
    /\ pc[Main] = "st_none"
    /\ camera' = None
    /\ ReturnMain(StopSuccess)
    /\ UNCHANGED <<belt_vars, camera_settings, timer_thread, is_capturing, last_frame,
                   movement_history, capture_count, opened, now, ghost_vars>>

\* The caller calls capture_image("manual").
ManualCapture ==
    /\ pc[Main] = "idle"
    /\ Goto(Main, "ci_check_camera")
    /\ UNCHANGED <<belt_vars, camera_vars, loc, result, now, ghost_vars>>

\* ---------------------------------------------------------------- the belt

\* The belt calls are made by the caller between its other calls; each reads
\* the clock once and touches only the belt attributes.
BeltFrame == UNCHANGED <<camera_vars, pc, loc, now, ghost_vars>>

\* TrackBeltOpen with a guard against a double open: an open of an open belt
\* is not counted.
TrackBeltOpenCountsOnce(opens) ==
    /\ pc[Main] = "idle"
    /\ total_opens < opens
    /\ last_open_time' = Some(now)
    /\ is_open' = TRUE
    /\ total_opens' = IF is_open THEN total_opens ELSE total_opens + 1
    /\ result' = [op |-> "track_belt_open", timestamp |-> now, action |-> "open",
                  total_opens |-> total_opens', is_open |-> TRUE]
    /\ UNCHANGED <<last_close_time, open_duration>>
    /\ BeltFrame

\* Lines 186-199.
TrackBeltOpen(opens) ==
    /\ pc[Main] = "idle"
    /\ total_opens < opens
    /\ last_open_time' = Some(now)
    /\ is_open' = TRUE
    /\ total_opens' = total_opens + 1
    /\ result' = [op |-> "track_belt_open", timestamp |-> now, action |-> "open",
                  total_opens |-> total_opens + 1, is_open |-> TRUE]
    /\ UNCHANGED <<last_close_time, open_duration>>
    /\ BeltFrame

\* track_belt_close, except that the close time is recorded before the belt
\* is found not to be open.
TrackBeltCloseStampsFirst ==
    /\ pc[Main] = "idle"
    /\ last_close_time' = Some(now)
    /\ IF ~is_open
       THEN /\ result' = [op |-> "track_belt_close", timestamp |-> now,
                          action |-> "close", error |-> "Belt was not open"]
            /\ UNCHANGED <<last_open_time, is_open, open_duration, total_opens>>
       ELSE /\ is_open' = FALSE
            /\ open_duration' = now - Val(last_open_time)
            /\ result' = [op |-> "track_belt_close", timestamp |-> now,
                          action |-> "close", duration |-> open_duration',
                          is_open |-> FALSE]
            /\ UNCHANGED <<last_open_time, total_opens>>
    /\ BeltFrame

\* track_belt_close, except that the duration is measured from the previous
\* close when there is one.
TrackBeltCloseSinceLastClose ==
    /\ pc[Main] = "idle"
    /\ IF ~is_open
       THEN /\ result' = [op |-> "track_belt_close", timestamp |-> now,
                          action |-> "close", error |-> "Belt was not open"]
            /\ UNCHANGED belt_vars
       ELSE /\ last_close_time' = Some(now)
            /\ is_open' = FALSE
            /\ open_duration' =
                   IF last_close_time # None THEN now - Val(last_close_time)
                   ELSE now - Val(last_open_time)
            /\ result' = [op |-> "track_belt_close", timestamp |-> now,
                          action |-> "close", duration |-> open_duration',
                          is_open |-> FALSE]
            /\ UNCHANGED <<last_open_time, total_opens>>
    /\ BeltFrame

\* Lines 206-230.
TrackBeltClose ==
    /\ pc[Main] = "idle"
    /\ IF ~is_open
       THEN /\ result' = [op |-> "track_belt_close", timestamp |-> now,
                          action |-> "close", error |-> "Belt was not open"]
            /\ UNCHANGED belt_vars
       ELSE /\ last_close_time' = Some(now)
            /\ is_open' = FALSE
            /\ open_duration' =
                   IF last_open_time # None THEN now - Val(last_open_time)
                   ELSE open_duration
            /\ result' = [op |-> "track_belt_close", timestamp |-> now,
                          action |-> "close", duration |-> open_duration',
                          is_open |-> FALSE]
            /\ UNCHANGED <<last_open_time, total_opens>>
    /\ BeltFrame

\* Python's truth of an Optional[float]: None and 0.0 are false.
Truthy(o) == o # None /\ Val(o) # 0

\* Lines 236-242.
GetTrackingStats ==
    /\ pc[Main] = "idle"
    /\ result' = [op |-> "get_tracking_stats", is_open |-> is_open,
                  last_open_time |-> last_open_time,
                  last_close_time |-> last_close_time,
                  total_opens |-> total_opens,
                  current_open_duration |->
                      IF is_open /\ Truthy(last_open_time)
                      THEN now - Val(last_open_time) ELSE 0]
    /\ UNCHANGED belt_vars
    /\ BeltFrame

\* time.time() moves on.
Advance(last) ==
    /\ now < last
    /\ now' = now + 1
    /\ UNCHANGED <<belt_vars, camera_vars, thread_vars, ghost_vars>>

NextBelt ==
    \/ TrackBeltOpen(MaxOpens)
    \/ TrackBeltClose
    \/ GetTrackingStats
    \/ Advance(MaxTime)

SpecBelt == Init /\ [][NextBelt]_vars

\* ------------------------------------------------- the threaded specification

\* The steps of the caller's start_camera, stop_camera and capture_image
\* calls, of a timer loop, and of a capture_image call of thread t.
CallerStep(starts) ==
    \/ StartCameraOpen(starts)
    \/ StartCameraIsOpened
    \/ StartCameraSetCapturing
    \/ StartCameraSpawn
    \/ StopCameraFlag
    \/ StopCameraRelease
    \/ StopCameraNone
    \/ ManualCapture
TimerStep(t) ==
    \/ TimerLoop(t)
    \/ TimerSleep(t)
CaptureStep(t, frames, cap) ==
    \/ CiCheckCamera(t)
    \/ CiCheckCapturing(t)
    \/ CiLoadCamera(t)
    \/ CiRead(t, frames, cap)
    \/ DmCheck(t)
    \/ DmCalibrate(t)
    \/ DmDiff(t)
    \/ DmStore(t)
    \/ DmAppend(t)
    \/ CiCountLoad(t)
    \/ CiCountStore(t)

\* One session: the caller starts the camera once, and then stops it and
\* captures as it likes while the timer loop runs.  Any thread may take its
\* next step.
Next ==
    \/ CallerStep(1)
    \/ \E t \in Timers : TimerStep(t)
    \/ \E t \in Threads : CaptureStep(t, Frames, MaxPulls)

Spec == Init /\ [][Next]_vars

\* Several sessions on the same object: start_camera is called again, with
\* or without a stop_camera in between.
NextRestart ==
    \/ CallerStep(MaxRestarts)
    \/ \E t \in Timers : TimerStep(t)
    \/ \E t \in Threads : CaptureStep(t, Frames, MaxRestartPulls)

SpecRestart == Init /\ [][NextRestart]_vars

\* ---------------------------------------------- the serial specifications

\* The runs in which calls do not overlap: a thread steps only while every
\* other thread is between two calls (the caller idle, a timer loop asleep
\* or about to test is_capturing).  Every such run is a run of the threads.
Resting == {"idle", "unborn", "t_loop", "t_sleep", "t_exit", "t_dead"}
Quiet(t) == \A u \in Threads \ {t} : pc[u] \in Resting
SerialNext(frames, starts, cap) ==
    \/ Quiet(Main) /\ StartCameraOpen(starts)
    \/ Quiet(Main) /\ StartCameraIsOpened
    \/ Quiet(Main) /\ StartCameraSetCapturing
    \/ Quiet(Main) /\ StartCameraSpawn
    \/ Quiet(Main) /\ StopCameraFlag
    \/ Quiet(Main) /\ StopCameraRelease
    \/ Quiet(Main) /\ StopCameraNone
    \/ Quiet(Main) /\ ManualCapture
    \/ \E t \in Timers : Quiet(t) /\ TimerLoop(t)
    \/ \E t \in Timers : Quiet(t) /\ TimerSleep(t)
    \/ \E t \in Threads : Quiet(t) /\ CiCheckCamera(t)
    \/ \E t \in Threads : Quiet(t) /\ CiCheckCapturing(t)
    \/ \E t \in Threads : Quiet(t) /\ CiLoadCamera(t)
    \/ \E t \in Threads : Quiet(t) /\ CiRead(t, frames, cap)
    \/ \E t \in Threads : Quiet(t) /\ DmCheck(t)
    \/ \E t \in Threads : Quiet(t) /\ DmCalibrate(t)
    \/ \E t \in Threads : Quiet(t) /\ DmDiff(t)
    \/ \E t \in Threads : Quiet(t) /\ DmStore(t)
    \/ \E t \in Threads : Quiet(t) /\ DmAppend(t)
    \/ \E t \in Threads : Quiet(t) /\ CiCountLoad(t)
    \/ \E t \in Threads : Quiet(t) /\ CiCountStore(t)

NextSerial == SerialNext(Frames, MaxRestarts, MaxRestartPulls)
SpecSerial == Init /\ [][NextSerial]_vars

\* ------------------------------------------- one session of timer captures

\* The caller starts the camera once and leaves the timer loop to capture.
OneSessionNext(frames, cap) ==
    \/ StartCameraOpen(1)
    \/ StartCameraIsOpened
    \/ StartCameraSetCapturing
    \/ StartCameraSpawn
    \/ \E t \in Timers : TimerLoop(t)
    \/ \E t \in Timers : TimerSleep(t)
    \/ \E t \in Timers : CiCheckCamera(t)
    \/ \E t \in Timers : CiCheckCapturing(t)
    \/ \E t \in Timers : CiLoadCamera(t)
    \/ \E t \in Timers : CiRead(t, frames, cap)
    \/ \E t \in Timers : DmCheck(t)
    \/ \E t \in Timers : DmCalibrate(t)
    \/ \E t \in Timers : DmDiff(t)
    \/ \E t \in Timers : DmStore(t)
    \/ \E t \in Timers : DmAppend(t)
    \/ \E t \in Timers : CiCountLoad(t)
    \/ \E t \in Timers : CiCountStore(t)

\* The classifier under every drawn setting of the thresholds.
InitClassify == (\E settings \in SettingsClassify : InitObject(settings)) /\ InitRun
NextClassify == OneSessionNext(FramesClassify, MaxClassifyPulls)
SpecClassify == InitClassify /\ [][NextClassify]_vars

\* The history over many captures.
NextHistory == OneSessionNext(Frames, MaxHistoryPulls)
SpecHistory == Init /\ [][NextHistory]_vars

\* ------------------------------------------------ the fair specification

\* Lines 110-115 once the device has delivered its last frame: read() fails.
CiReadExhausted(t, cap) ==
    /\ pc[t] = "ci_read"
    /\ pulls >= cap
    /\ Return(t, ErrNoFrame)
    /\ UNCHANGED <<belt_vars, camera_vars, now, ghost_vars>>

\* One session in which the caller starts and stops the camera and the timer
\* loop captures.
FairNext(frames, cap) ==
    \/ StartCameraOpen(1)
    \/ StartCameraIsOpened
    \/ StartCameraSetCapturing
    \/ StartCameraSpawn
    \/ StopCameraFlag
    \/ StopCameraRelease
    \/ StopCameraNone
    \/ \E t \in Timers : TimerStep(t)
    \/ \E t \in Timers : CaptureStep(t, frames, cap)
    \/ \E t \in Timers : CiReadExhausted(t, cap)

\* What a started timer thread does next.  The interpreter schedules every
\* runnable thread again and again, time.sleep returns, and read() returns.
TimerRun(t) ==
    \/ TimerStep(t)
    \/ CaptureStep(t, Frames, MaxFairPulls)
    \/ CiReadExhausted(t, MaxFairPulls)

NextFair == FairNext(Frames, MaxFairPulls)
SpecFair ==
    /\ Init
    /\ [][NextFair]_vars
    /\ \A t \in Timers : WF_vars(TimerRun(t))

\* ------------------------------------------------------- the whole object

\* One session in which the caller starts and stops the camera and the timer
\* loop captures, with the caller's belt calls between its camera calls and
\* the clock moving on.
NextWhole ==
    \/ FairNext(Frames, MaxWholePulls)
    \/ TrackBeltOpen(MaxWholeOpens)
    \/ TrackBeltClose
    \/ Advance(MaxWholeTime)

SpecWhole == Init /\ [][NextWhole]_vars

\* ------------------------------------------------------------------ claims

\* Thread t takes the step that leaves position `label`.
Leaves(t, label) == pc[t] = label /\ pc'[t] # label
TickState == <<last_frame, movement_history, capture_count>>
\* The positions of capture_image up to and including the frame pull.
BeforePull == {"ci_check_camera", "ci_check_capturing", "ci_load_camera", "ci_read"}

\* C1: a capture_image call whose frame pull fails returns the error record
\* "Failed to capture frame", and no step of that call, from its entry to
\* the failed pull, changes the baseline, the movement history or
\* capture_count.
C1_FailedPullLeavesTickState ==
    [][\A t \in Threads :
          /\ (\E label \in BeforePull : Leaves(t, label)) => TickState' = TickState
          /\ (Leaves(t, "ci_read") /\ pc'[t] # "dm_check") =>
                /\ pc'[t] = AfterCapture(t)
                /\ loc'[t] = NoLocals
                /\ t = Main => result' = ErrNoFrame]_vars

\* C1 witness: the caller's capture has failed on its frame pull in a run
\* whose two other captures set the baseline, appended a sample and were
\* counted.
C1_Witness ==
    /\ pc[Main] = "idle"
    /\ result = ErrNoFrame
    /\ last_frame # None
    /\ Len(movement_history) = 1
    /\ capture_count = 2
    /\ pulls = 3

\* C2: no two ticks interleave on the baseline, the history and the capture
\* count: the steps of a tick are atomic with respect to every other tick,
\* so that capture_count equals the number of successful ticks, each
\* successful tick leaving it one above what the tick before it left.
C2_TicksAreSerialized ==
    [][\A t \in Threads :
          Leaves(t, "ci_count_store") => capture_count' = capture_count + 1]_vars

\* C3: after any sequence of ticks the stored movement history holds at most
\* 10 samples (an append beyond 10 evicts the oldest).
C3_HistoryHoldsAtMostTen == Len(movement_history) <= 10

\* C4: the first successful tick after every successful start_camera, also
\* one that follows an earlier session on the same object, yields the type
\* none with confidence 0.0: a tick whose frame is the first delivered since
\* is_capturing was set has produced the calibration record when it comes to
\* count the capture.
C4_FirstTickOfSessionCalibrates ==
    \A t \in Threads :
        (pc[t] = "ci_count_load" /\ loc[t].first) => loc[t].data = CalibrationData

\* C5: stop_camera does not preempt a tick in flight: a tick that passed its
\* capturing check pulls its frame from an open camera, and no capture_image
\* call ends in an exception.
C5_StopNeverPreemptsTick ==
    /\ \A t \in Threads : pc[t] = "ci_read" => loc[t].cam \in opened
    /\ \A t \in Timers : pc[t] # "t_dead"
    /\ result # Raised

\* C6: track_belt_close called while the belt is closed returns the error
\* "Belt was not open" and leaves is_open, total_opens, last_open_time,
\* last_close_time and the stored open duration unchanged.
C6_CloseWhileClosedIsReported ==
    [][(TrackBeltClose /\ ~is_open) =>
          /\ "error" \in DOMAIN result'
          /\ result'.error = "Belt was not open"
          /\ belt_vars' = belt_vars]_vars

\* C6 witness: a close was refused after an open and a close: the belt is
\* closed and keeps the times of the pair.
C6_Witness ==
    /\ "error" \in DOMAIN result
    /\ result.error = "Belt was not open"
    /\ result.timestamp = 3
    /\ ~is_open
    /\ total_opens = 1
    /\ last_open_time = Some(1)
    /\ last_close_time = Some(2)
    /\ open_duration = 1

\* C7: track_belt_open records the current time as the time of the most
\* recent open, and a track_belt_close while open at time t2 reports and
\* stores t2 minus that time and leaves the belt closed, whatever pair of
\* open and close came before.
C7_CloseReportsTimeSinceLastOpen ==
    [][/\ TrackBeltOpen(MaxOpens) => last_open_time' = Some(now) /\ is_open'
       /\ (TrackBeltClose /\ is_open) =>
             /\ "duration" \in DOMAIN result'
             /\ result'.duration = now - Val(last_open_time)
             /\ open_duration' = now - Val(last_open_time)
             /\ last_close_time' = Some(now)
             /\ ~is_open']_vars

\* C7 witness: a second pair, open at 3 and close at 4, reported the
\* duration 1 after a first pair that had ended at 2.
C7_Witness ==
    /\ "duration" \in DOMAIN result
    /\ result.duration = 1
    /\ total_opens = 2
    /\ last_open_time = Some(3)
    /\ last_close_time = Some(4)
    /\ open_duration = 1
    /\ ~is_open

\* The samples of the non-calibration ticks are the entries of the history.
Samples == {movement_history[i] : i \in DOMAIN movement_history}
FracGE(a, t) == a[1] >= t * a[2]

\* C8: under thresholds with movement <= running <= fall, a non-calibration
\* tick of magnitude m has the type fall iff m > fall_threshold, else running
\* iff m > running_threshold, else walking iff m > movement_threshold, else
\* none: a magnitude equal to a threshold is in the lower class.
C8_TypeByDescendingThreshold ==
    LET s == camera_settings
    IN  (s.movement_threshold <= s.running_threshold
            /\ s.running_threshold <= s.fall_threshold) =>
        \A d \in Samples :
            LET m == d.movement_value
            IN  /\ d.type = "fall" <=> FracGT(m, s.fall_threshold)
                /\ d.type = "running" <=>
                       (~FracGT(m, s.fall_threshold) /\ FracGT(m, s.running_threshold))
                /\ d.type = "walking" <=>
                       (~FracGT(m, s.running_threshold)
                           /\ FracGT(m, s.movement_threshold))
                /\ d.type = "none" <=> ~FracGT(m, s.movement_threshold)

\* C8 witness: with thresholds 0 < 1 < 2 a tick of magnitude exactly 2, the
\* fall threshold, was typed running, and one of magnitude exactly 1 walking.
C8_Witness ==
    /\ camera_settings.movement_threshold = 0
    /\ camera_settings.running_threshold = 1
    /\ camera_settings.fall_threshold = 2
    /\ \E d \in Samples : FracEq(d.movement_value, <<2, 1>>) /\ d.type = "running"
    /\ \E d \in Samples : FracEq(d.movement_value, <<1, 1>>) /\ d.type = "walking"

\* C9: for a positive movement_threshold the confidence of a non-calibration
\* tick is min(magnitude / movement_threshold, 1): it never exceeds 1, is 1
\* iff magnitude >= movement_threshold, is the quotient below that, and is
\* non-decreasing in the magnitude.
C9_ConfidenceSaturates ==
    LET mt == camera_settings.movement_threshold
    IN  mt > 0 =>
        /\ \A d \in Samples :
              LET m == d.movement_value
              IN  /\ FracLE(d.confidence, One)
                  /\ FracEq(d.confidence, One) <=> FracGE(m, mt)
                  /\ ~FracGE(m, mt) => FracEq(d.confidence, <<m[1], m[2] * mt>>)
        /\ \A d, e \in Samples :
              FracLE(d.movement_value, e.movement_value) =>
                  FracLE(d.confidence, e.confidence)

\* C9 witness: a tick whose magnitude equals a positive movement_threshold
\* has confidence 1 and the type none, after a tick of smaller magnitude and
\* smaller confidence.
C9_Witness ==
    /\ camera_settings.movement_threshold = 1
    /\ \E d, e \in Samples :
          /\ FracEq(d.movement_value, <<1, 1>>)
          /\ FracEq(d.confidence, One)
          /\ d.type = "none"
          /\ FracLT(e.movement_value, d.movement_value)
          /\ FracLT(Zero, e.confidence)
          /\ FracLT(e.confidence, d.confidence)

StartError == Result("start_camera", "error", "Failed to open camera")

\* C10: when start_camera has failed because the camera could not be
\* opened, is_capturing is false once it has returned its error record.
C10_FailedStartIsNotCapturing ==
    (pc[Main] = "idle" /\ result = StartError) => ~is_capturing

\* The steps of a stop_camera call, and the one that returns.
StopStep ==
    /\ pc'[Main] # pc[Main]
    /\ pc[Main] \in {"st_release", "st_none"} \/ pc'[Main] = "st_release"
StopReturns == pc[Main] \in {"st_release", "st_none"} /\ pc'[Main] = "idle"

\* C11: stop_camera is idempotent and safe in every state: it always returns
\* success with is_capturing false and the frame source released and absent,
\* and called on an object that was never started or is already stopped it
\* changes no attribute.
C11_StopIsIdempotent ==
    [][/\ StopReturns =>
              /\ result' = StopSuccess
              /\ ~is_capturing'
              /\ camera' = None
              /\ camera # None => Val(camera) \notin opened'
       /\ (StopStep /\ camera = None /\ ~is_capturing) =>
              <<belt_vars, camera_vars>>' = <<belt_vars, camera_vars>>]_vars

\* C11 witness: stop_camera is called again on a session that was started
\* and stopped: it has passed line 78 and finds no camera.
C11_Witness ==
    /\ pc[Main] = "st_release"
    /\ camera = None
    /\ timer_thread # None
    /\ ~is_capturing
    /\ result = StopSuccess

\* The frame pull of a capture_image call of thread t fails.
FailedPull(t) == Leaves(t, "ci_read") /\ pc'[t] # "dm_check"

\* C12: a failed frame pull in a timer tick does not end the timer loop: the
\* tick returns into the loop's wait with the baseline untouched, every wait
\* is followed by the next tick while the session is capturing, and a
\* successful tick is classified against the baseline it finds.
C12_FailedTickKeepsLoopRunning ==
    /\ [][\A t \in Timers :
             /\ FailedPull(t) => pc'[t] = "t_sleep" /\ last_frame' = last_frame
             /\ Leaves(t, "dm_diff") =>
                   loc'[t].movement =
                       mean(absdiff(Val(last_frame), cvtColor(loc[t].frame)))]_vars
    /\ \A t \in Timers :
          pc[t] = "t_sleep" ~> (pc[t] = "ci_check_camera" \/ ~is_capturing)

\* C12 witness: the timer loop has pulled three times: one capture was
\* counted, one pull failed, and the third frame is being classified.
C12_Witness ==
    /\ pc[1] = "dm_append"
    /\ pulls = 3
    /\ capture_count = 1
    /\ is_capturing
    /\ FracEq(loc[1].movement, <<90, 1>>)

\* C13: every successful tick, the calibration tick included, appends exactly
\* one sample to the history and adds one to capture_count: whenever no call
\* is in progress in a run of calls made one after another, the history
\* holds as many samples as captures were counted.
C13_EveryCaptureAppendsOneSample ==
    (\A t \in Threads : pc[t] \in Resting) => Len(movement_history) = capture_count

\* Timer thread t is inside a tick: in the capture_image call of line 94.
InTick(t) == pc[t] \notin {"unborn", "t_loop", "t_sleep", "t_exit", "t_dead"}

\* C14: at most one timer loop issues ticks at any time, for every sequence
\* of start_camera and stop_camera calls, so that the ticks of two timer
\* loops never overlap.
C14_TimerTicksNeverOverlap ==
    \A t \in Timers : \A u \in Timers \ {t} : ~(InTick(t) /\ InTick(u))

\* The session is stopped for good: is_capturing is false and no start_camera
\* call is in progress or still to come (the one session was started).
StartPositions == {"sc_is_opened", "sc_set_capturing", "sc_spawn"}
Stopped == cams_made = 1 /\ pc[Main] \notin StartPositions /\ ~is_capturing
\* Every timer thread that was started has ended.
TimersEnded == \A t \in Timers : pc[t] \in {"unborn", "t_exit", "t_dead"}

\* C15: after stop_camera, with no further start_camera, the timer loop
\* eventually exits, and once its current tick has completed no tick changes
\* the baseline, the movement history or capture_count.
C15_LoopExitsAfterStop ==
    /\ [][(Stopped /\ \A t \in Timers : ~InTick(t)) => TickState' = TickState]_vars
    /\ Stopped ~> TimersEnded

\* C15 witness: the session was started, its loop counted a capture,
\* stop_camera returned and the loop has left through the test of line 93.
C15_Witness ==
    /\ pc[Main] = "idle"
    /\ result = StopSuccess
    /\ camera = None
    /\ pc[1] = "t_exit"
    /\ capture_count = 1

\* Thread t comes to position `label`.
Enters(t, label) == pc[t] # label /\ pc'[t] = label

\* C16: the first tick of a timer loop is issued before any wait, and each
\* later tick only after the tick before it has completed and a wait of
\* timer_interval has followed: a tick is issued from the test of line 93
\* only, the test is reached from the start of the thread or from a wait
\* that has ended, and a wait begins only when a tick returns.
C16_TickThenWait ==
    [][\A t \in Timers :
          /\ Enters(t, "ci_check_camera") => pc[t] = "t_loop" /\ is_capturing
          /\ Enters(t, "t_loop") => pc[t] \in {"unborn", "t_sleep"}
          /\ Enters(t, "t_sleep") => InTick(t)
          /\ Leaves(t, "unborn") => pc'[t] = "t_loop" /\ is_capturing]_vars

\* C16 witness: the loop has counted its first capture, waited, and issued
\* its second tick.
C16_Witness ==
    /\ pc[1] = "ci_check_camera"
    /\ capture_count = 1
    /\ pulls = 1
    /\ is_capturing

\* C17: track_belt_open always succeeds: in either state it sets the belt
\* open, overwrites last_open_time with the current time and adds exactly
\* one to total_opens, which it reports; no other operation changes
\* total_opens.
C17_OpenAlwaysCounts ==
    [][/\ TrackBeltOpen(MaxOpens) =>
              /\ is_open'
              /\ last_open_time' = Some(now)
              /\ total_opens' = total_opens + 1
              /\ result'.total_opens = total_opens + 1
              /\ "error" \notin DOMAIN result'
       /\ ~TrackBeltOpen(MaxOpens) => total_opens' = total_opens]_vars

\* C17 witness: the belt was opened and, still open, opened again at time 2:
\* both opens are counted and the open time is that of the second.
C17_Witness ==
    /\ result.op = "track_belt_open"
    /\ result.total_opens = 2
    /\ result.timestamp = 2
    /\ total_opens = 2
    /\ is_open
    /\ last_open_time = Some(2)
    /\ last_close_time = None

\* C18: get_tracking_stats reports current_open_duration = now -
\* last_open_time whenever the belt is open, for every open time, time 0
\* included, and 0 whenever the belt is closed.
C18_StatsReportOpenDuration ==
    [][GetTrackingStats =>
          result'.current_open_duration =
              IF is_open THEN now - Val(last_open_time) ELSE 0]_vars

\* A call of track_belt_open or track_belt_close.
BeltCall == TrackBeltOpen(MaxWholeOpens) \/ TrackBeltClose

\* C19: belt and camera state are disjoint: track_belt_open and
\* track_belt_close leave the camera attributes unchanged, every step of
\* start_camera, stop_camera and of a tick leaves the belt attributes
\* unchanged, and the stored open duration is 0 until the first successful
\* close.
C19_BeltAndCameraDisjoint ==
    /\ [](last_close_time = None => open_duration = 0)
    /\ [][/\ BeltCall => camera_vars' = camera_vars
          /\ ~BeltCall => belt_vars' = belt_vars]_vars

\* C19 witness: the camera is capturing and has counted a capture, and the
\* belt was opened at time 0 and closed at time 1.
C19_Witness ==
    /\ is_capturing
    /\ capture_count = 1
    /\ last_frame # None
    /\ ~is_open
    /\ total_opens = 1
    /\ last_open_time = Some(0)
    /\ last_close_time = Some(1)
    /\ open_duration = 1

\* The positions of capture_image behind the check of line 104.
PastCheck ==
    {"ci_load_camera", "ci_read", "dm_check", "dm_calibrate", "dm_diff",
     "dm_store", "dm_append", "ci_count_load", "ci_count_store"}
\* Thread t takes the step of line 104 that finds the session not capturing.
FindsNotCapturing(t) ==
    /\ pc'[t] # pc[t]
    /\ \/ pc[t] = "ci_check_camera" /\ camera = None
       \/ pc[t] = "ci_check_capturing" /\ ~is_capturing

\* C20: capture_image called while the session is not capturing returns the
\* error record without pulling a frame and leaves the baseline, the
\* movement history and capture_count unchanged: the caller's call gets
\* behind the check of line 104 only in a capturing session with a camera,
\* and the check that finds the session not capturing returns at once.
C20_CaptureWhenNotCapturing ==
    /\ [](pc[Main] \in PastCheck => (is_capturing /\ camera # None))
    /\ [][\A t \in Threads :
             FindsNotCapturing(t) =>
                /\ pc'[t] = AfterCapture(t)
                /\ t = Main => result' = ErrNotCapturing
                /\ pulls' = pulls
                /\ TickState' = TickState]_vars

\* C20 witness: after a session that counted a capture was stopped, the
\* caller's capture_image has returned the error record.
C20_Witness ==
    /\ pc[Main] = "idle"
    /\ result = ErrNotCapturing
    /\ camera = None
    /\ ~is_capturing
    /\ cams_made = 1
    /\ capture_count = 1
    /\ last_frame # None

====
